---- MODULE Spec2Model ----
(***************************************************************************)
(* A model of trustme (src/trustme/__init__.py): a certificate authority   *)
(* that issues leaf certificates, the Blob wrapper around PEM bytes, and   *)
(* the two configuration operations that inject the material into a TLS    *)
(* context (ssl.SSLContext, or a pyOpenSSL context).                       *)
(*                                                                         *)
(* Byte strings are sequences.  PEM data is a sequence of PEM blocks, each *)
(* a record [label, der]; the cryptographic backend is modelled by what it *)
(* produces: a key pair is identified by a number, a signature records the *)
(* private key that made it.  A call into an external library either takes*)
(* effect and returns, or raises and leaves its receiver as it was; which  *)
(* of the two happens is an input of the action (failAt).                  *)
(***************************************************************************)
EXTENDS Integers, Sequences, FiniteSets, TLC

VARIABLES
    cas,      \* the CA objects constructed so far, in order of construction
    leaves,   \* the LeafCert objects issued so far, in order of issuance
    issued,   \* history: for each leaf, the CA and the hostnames of the call
    nrand,    \* number of draws made from the backend's random source
    live,     \* the context objects the program holds
    ctxs,     \* the state of each TLS context object
    fs,       \* the filesystem: path -> file
    scope,    \* the Blob.tempfile() scope in progress, if any
    blob,     \* the Blob under test (Blob operations on arbitrary bytes)
    made_from,\* history: the bytes the Blob under test was constructed from
    result    \* outcome of the last completed call

vars == <<cas, leaves, issued, nrand, live, ctxs, fs, scope, blob, made_from, result>>

(***************************************************************************)
(* Bounds of the model.                                                    *)
(***************************************************************************)
MaxCAs == 2
MaxLeaves == 2
MaxChain == 2
MaxLen == 2
MaxFileLen == 3

\* The hostname tuples issue_server_cert is called with (the empty call,
\* one name, two names in both orders, a duplicated name).
HostnameTuples ==
    { <<>>, <<"example.org">>, <<"example.org", "b.test">>,
      <<"b.test", "example.org">>, <<"b.test", "b.test">> }

Range(s) == { s[i] : i \in DOMAIN s }

\* str.startswith, on strings given as tuples of characters
startswith(s, prefix) ==
    /\ Len(s) >= Len(prefix)
    /\ SubSeq(s, 1, Len(prefix)) = prefix

(***************************************************************************)
(* Cryptographic backend (external): the shapes of what it returns.        *)
(***************************************************************************)
KEY_SIZE == 1024

\* rsa.generate_private_key: a fresh key pair, named by the draw that made it
generate_private_key(n) == [id |-> n, key_size |-> KEY_SIZE]
public_key(private_key) == [pub |-> private_key.id, key_size |-> private_key.key_size]

\* x509.SubjectKeyIdentifier.from_public_key: a digest of the public key
SubjectKeyIdentifier(pk) == [digest |-> pk.pub]
\* x509.AuthorityKeyIdentifier.from_issuer_subject_key_identifier
AuthorityKeyIdentifier(ski) == [key_identifier |-> ski.value.digest]
BasicConstraints(ca, path_length) == [ca |-> ca, path_length |-> path_length]
DNSName(h) == [dns |-> h]
SubjectAlternativeName(names) == [general_names |-> names]

add_extension(builder, oid, value, critical) ==
    [builder EXCEPT !.extensions =
        Append(@, [oid |-> oid, critical |-> critical, value |-> value])]

has_extension(cert, oid) == \E i \in DOMAIN cert.extensions : cert.extensions[i].oid = oid

get_extension_for_class(cert, oid) ==
    cert.extensions[CHOOSE i \in DOMAIN cert.extensions : cert.extensions[i].oid = oid]

\* CertificateBuilder.sign: the certificate, with the signature of private_key
sign(builder, private_key) ==
    [tbs |-> builder,
     subject |-> builder.subject,
     issuer |-> builder.issuer,
     extensions |-> builder.extensions,
     signature |-> [by |-> private_key.id, algorithm |-> "SHA256"]]

\* Certificate.public_bytes(Encoding.PEM) / key.private_bytes(PEM, ...)
public_bytes(cert) == << [label |-> "CERTIFICATE", der |-> cert] >>
private_bytes(key) == << [label |-> "RSA PRIVATE KEY", der |-> key] >>

\* PEM decoding: the blocks of one kind found in a byte string, in order
PemBlocks(data, label) == SelectSeq(data, LAMBDA b : b.label = label)

(***************************************************************************)
(* Module-level helpers.                                                   *)
(***************************************************************************)
version == "0.1.0"

common_name(name) ==
    << [oid |-> "COMMON_NAME",
        value |-> <<name, " (generated by faketlscerts v", version, ")">>] >>

\* _cert_builder_common; the validity window is kept relative to today
cert_builder_common(subject, issuer, pk, serial) ==
    add_extension(
        [subject |-> subject,
         issuer |-> issuer,
         not_valid_before_days |-> -1,
         not_valid_after_years |-> 1000,
         serial_number |-> serial,
         public_key |-> pk,
         extensions |-> << >>],
        "subjectKeyIdentifier", SubjectKeyIdentifier(pk), FALSE)

(***************************************************************************)
(* Blob                                                                    *)
(***************************************************************************)
Blob(data) == [data |-> data]

bytes(b) == b.data

NoFile == [exists |-> FALSE, content |-> << >>]
File(content) == [exists |-> TRUE, content |-> content]

\* faulty variant: the file is opened in mode "ab" whatever append is
write_to_path_always_appends(f, b, path, append) ==
    [f EXCEPT ![path] =
        IF f[path].exists
        THEN File(f[path].content \o b.data)
        ELSE File(b.data)]

\* open(path, mode) + f.write(self._data): "wb" truncates, "ab" appends,
\* both create the file when it is missing
write_to_path(f, b, path, append) ==
    [f EXCEPT ![path] =
        IF append /\ f[path].exists
        THEN File(f[path].content \o b.data)
        ELSE File(b.data)]

(***************************************************************************)
(* CA                                                                      *)
(***************************************************************************)
\* CA.__init__, given the draw n of the random source
CA_init(n) ==
    LET private_key == generate_private_key(n)
        certificate ==
            sign(add_extension(
                     cert_builder_common(common_name("Testing CA"),
                                         common_name("Testing CA"),
                                         public_key(private_key), n),
                     "basicConstraints", BasicConstraints(TRUE, 9), TRUE),
                 private_key)
    IN  [private_key |-> private_key,
         certificate |-> certificate,
         cert_pem |-> Blob(public_bytes(certificate))]

\* LeafCert.__init__
LeafCert_init(private_key_pem, server_cert_pem) ==
    [private_key_pem |-> Blob(private_key_pem),
     cert_chain_pems |-> << Blob(server_cert_pem) >>,
     private_key_and_cert_chain_pem |-> Blob(private_key_pem \o server_cert_pem)]

\* faulty variant: the leaf names itself as its issuer
leaf_issuer_self(ca) == common_name("Testing cert")

\* the issuer name of a leaf: self._certificate.subject
leaf_issuer(ca) == ca.certificate.subject

\* faulty variant: [x509.DNSName(h) for h in set(hostnames)]
san_names_of_set(hostnames) ==
    LET S == Range(hostnames)
        order == CHOOSE q \in [1..Cardinality(S) -> S] : Range(q) = S
    IN  [i \in DOMAIN order |-> DNSName(order[i])]

\* [x509.DNSName(h) for h in hostnames]
san_names(hostnames) == [i \in DOMAIN hostnames |-> DNSName(hostnames[i])]

\* faulty variant: the leaf is signed with a key that is not the CA's
leaf_signing_key_other(ca) == generate_private_key(0)

\* the private key that signs a leaf: self._private_key
leaf_signing_key(ca) == ca.private_key

\* CA.issue_server_cert past its argument check: the LeafCert returned
build_leaf(ca, hostnames, n) ==
    LET key == generate_private_key(n)
        ski == get_extension_for_class(ca.certificate, "subjectKeyIdentifier")
        b0 == cert_builder_common(common_name("Testing cert"),
                                  leaf_issuer(ca),
                                  public_key(key), n)
        b1 == add_extension(b0, "basicConstraints",
                            BasicConstraints(FALSE, -1), TRUE)
        b2 == add_extension(b1, "authorityKeyIdentifier",
                            AuthorityKeyIdentifier(ski), FALSE)
        b3 == add_extension(b2, "subjectAltName",
                            SubjectAlternativeName(san_names(hostnames)), TRUE)
        cert == sign(b3, leaf_signing_key(ca))
    IN  LeafCert_init(private_bytes(key), public_bytes(cert))

NoLeaf == [none |-> TRUE]

\* faulty variant: the key is generated before the hostnames are checked
issue_server_cert_late_check(ca, hostnames, n) ==
    IF Len(hostnames) = 0
    THEN [exc |-> "ValueError", msg |-> <<"Must specify at least one hostname">>,
          leaf |-> NoLeaf, draws |-> 1]
    ELSE [exc |-> "none", msg |-> << >>,
          leaf |-> build_leaf(ca, hostnames, n), draws |-> 1]

\* CA.issue_server_cert: what the call raises or returns, and the number of
\* draws it made from the random source
issue_server_cert(ca, hostnames, n) ==
    IF Len(hostnames) = 0
    THEN [exc |-> "ValueError", msg |-> <<"Must specify at least one hostname">>,
          leaf |-> NoLeaf, draws |-> 0]
    ELSE [exc |-> "none", msg |-> << >>,
          leaf |-> build_leaf(ca, hostnames, n), draws |-> 1]


(***************************************************************************)
(* TLS context objects.  What the dispatch reads of an object is whether   *)
(* it is an ssl.SSLContext instance, its __module__ attribute (if it has   *)
(* one) and its class name.                                                *)
(***************************************************************************)
Contexts == {"N", "M", "P", "U", "V"}
NativeContexts == {"N", "M"}

OpenSSL == <<"O", "p", "e", "n", "S", "S", "L">>

ContextObject(x) ==
    CASE x = "N" -> \* ssl.SSLContext(...)
             [is_SSLContext |-> TRUE, has_module |-> TRUE,
              module |-> <<"s", "s", "l">>, class_name |-> "SSLContext"]
      [] x = "M" -> \* an ssl.SSLContext subclass defined in a module OpenSSL_compat
             [is_SSLContext |-> TRUE, has_module |-> TRUE,
              module |-> OpenSSL \o <<"_", "c", "o", "m", "p", "a", "t">>,
              class_name |-> "CompatContext"]
      [] x = "P" -> \* OpenSSL.SSL.Context(...)
             [is_SSLContext |-> FALSE, has_module |-> TRUE,
              module |-> OpenSSL \o <<".", "S", "S", "L">>,
              class_name |-> "Context"]
      [] x = "U" -> \* 42: an object without a __module__ attribute
             [is_SSLContext |-> FALSE, has_module |-> FALSE,
              module |-> << >>, class_name |-> "int"]
      [] x = "V" -> \* an object of a class defined in a module myOpenSSL
             [is_SSLContext |-> FALSE, has_module |-> TRUE,
              module |-> <<"m", "y">> \o OpenSSL, class_name |-> "FakeContext"]

NoKey == [id |-> 0, key_size |-> 0]
NoCert == [none |-> TRUE]
\* a context as constructed: no trusted roots, no key, no certificate
EmptyContext == [roots |-> {}, private_key |-> NoKey, certificate |-> NoCert]

\* getattr(ctx, "__module__", "")
getattr_module(obj) == IF obj.has_module THEN obj.module ELSE << >>

\* faulty variant: "OpenSSL" in getattr(ctx, "__module__", "")
smells_like_pyopenssl_anywhere(obj) ==
    \E i \in 1..Len(getattr_module(obj)) :
        startswith(SubSeq(getattr_module(obj), i, Len(getattr_module(obj))), OpenSSL)

smells_like_pyopenssl(obj) == startswith(getattr_module(obj), OpenSSL)

\* "unrecognized context type {!r}".format(ctx.__class__.__name__)
unrecognized(obj) == <<"unrecognized context type ", "'", obj.class_name, "'">>

\* bytes.decode("ascii")
decode_ascii(data) == [str |-> data]

(***************************************************************************)
(* The operations of the two context shapes (external).                    *)
(***************************************************************************)
\* ssl.SSLContext.load_verify_locations(cadata=<str>)
load_verify_locations(st, cadata) ==
    LET certs == PemBlocks(cadata.str, "CERTIFICATE")
    IN  [st EXCEPT !.roots = @ \cup { certs[i].der : i \in DOMAIN certs }]

\* OpenSSL.crypto.load_certificate / load_privatekey (FILETYPE_PEM)
pem_has(data, label) == Len(PemBlocks(data, label)) > 0
load_certificate(data) == PemBlocks(data, "CERTIFICATE")[1].der
load_privatekey(data) == PemBlocks(data, "RSA PRIVATE KEY")[1].der

\* OpenSSL.SSL.Context.get_cert_store().add_cert(cert)
add_cert(st, cert) == [st EXCEPT !.roots = @ \cup {cert}]
use_privatekey(st, key) == [st EXCEPT !.private_key = key]
use_certificate(st, cert) == [st EXCEPT !.certificate = cert]

\* ssl.SSLContext.load_cert_chain(path): can the file at path be loaded
can_load_cert_chain(f, path) ==
    /\ f[path].exists
    /\ pem_has(f[path].content, "CERTIFICATE")
    /\ pem_has(f[path].content, "RSA PRIVATE KEY")
    /\ public_key(load_privatekey(f[path].content))
           = load_certificate(f[path].content).tbs.public_key

load_cert_chain(st, f, path) ==
    [st EXCEPT !.certificate = load_certificate(f[path].content),
               !.private_key = load_privatekey(f[path].content)]

(***************************************************************************)
(* Blob.tempfile                                                           *)
(***************************************************************************)
\* NamedTemporaryFile(suffix=".pem", dir=dir, delete=False): a new, empty file
NamedTemporaryFile(f, path) == [f EXCEPT ![path] = File(<< >>)]

\* f.write(self._data); f.close()
tempfile_write(f, b, path) == [f EXCEPT ![path] = File(f[path].content \o b.data)]

\* faulty variant: os.unlink(f.name) after the yield, without try/finally
tempfile_unlink_on_return(f, path, raised) ==
    IF raised THEN f ELSE [f EXCEPT ![path] = NoFile]

\* finally: os.unlink(f.name), whether the scope is left by return or by raise
tempfile_finally(f, path, raised) == [f EXCEPT ![path] = NoFile]

(***************************************************************************)
(* CA.configure_trust and LeafCert.configure_cert: the context after the   *)
(* call, what the call raised, and the context operations it invoked.      *)
(***************************************************************************)
Outcome(st, f, exc, at, msg, calls, tmp) ==
    [ctx |-> st, fs |-> f, exc |-> exc, at |-> at, msg |-> msg, calls |-> calls,
     tmp |-> tmp]

Returned(st, f, calls, tmp) == Outcome(st, f, "none", "none", << >>, calls, tmp)

\* raise TypeError("unrecognized context type ...")
unrecognized_context(obj, st, f) ==
    Outcome(st, f, "TypeError", "dispatch", unrecognized(obj), {}, "none")

\* ctx.load_verify_locations(cadata=self.cert_pem.bytes().decode("ascii"))
configure_trust_native(ca, st, f, failAt) ==
    IF failAt = "load_verify_locations"
    THEN Outcome(st, f, "SSLError", failAt, << >>, {"load_verify_locations"}, "none")
    ELSE Returned(load_verify_locations(st, decode_ascii(bytes(ca.cert_pem))),
                  f, {"load_verify_locations"}, "none")

\* cert = crypto.load_certificate(...); store = ctx.get_cert_store();
\* store.add_cert(cert)
configure_trust_pyopenssl(ca, st, f, failAt) ==
    IF failAt = "load_certificate" \/ ~pem_has(bytes(ca.cert_pem), "CERTIFICATE")
    THEN Outcome(st, f, "Error", "load_certificate", << >>, {}, "none")
    ELSE IF failAt = "get_cert_store"
    THEN Outcome(st, f, "Error", failAt, << >>, {"get_cert_store"}, "none")
    ELSE IF failAt = "add_cert"
    THEN Outcome(st, f, "Error", failAt, << >>, {"get_cert_store", "add_cert"}, "none")
    ELSE Returned(add_cert(st, load_certificate(bytes(ca.cert_pem))),
                  f, {"get_cert_store", "add_cert"}, "none")

configure_trust(ca, obj, st, f, failAt) ==
    IF obj.is_SSLContext THEN configure_trust_native(ca, st, f, failAt)
    ELSE IF smells_like_pyopenssl(obj) THEN configure_trust_pyopenssl(ca, st, f, failAt)
    ELSE unrecognized_context(obj, st, f)

\* with self.private_key_and_cert_chain_pem.tempfile() as path:
\*     ctx.load_cert_chain(path)
configure_cert_native(leaf, st, f, tmp, failAt) ==
    LET b == leaf.private_key_and_cert_chain_pem
        f1 == NamedTemporaryFile(f, tmp)
        f2 == tempfile_write(f1, b, tmp)
    IN  IF failAt = "NamedTemporaryFile"
        THEN Outcome(st, f, "OSError", failAt, << >>, {}, "none")
        ELSE IF failAt = "write"
        THEN Outcome(st, tempfile_finally(f1, tmp, TRUE), "OSError", failAt, << >>, {}, tmp)
        ELSE IF failAt = "load_cert_chain" \/ ~can_load_cert_chain(f2, tmp)
        THEN Outcome(st, tempfile_finally(f2, tmp, TRUE), "SSLError", "load_cert_chain",
                     << >>, {"load_cert_chain"}, tmp)
        ELSE Returned(load_cert_chain(st, f2, tmp), tempfile_finally(f2, tmp, FALSE),
                      {"load_cert_chain"}, tmp)

\* faulty variant: the certificate is loaded and assigned before the private key
configure_cert_pyopenssl_cert_first(leaf, st, f, failAt) ==
    LET cdata == bytes(leaf.cert_chain_pems[1])
        st1 == use_certificate(st, load_certificate(cdata))
        data == bytes(leaf.private_key_pem)
        st2 == use_privatekey(st1, load_privatekey(data))
    IN  IF failAt = "load_certificate" \/ ~pem_has(cdata, "CERTIFICATE")
        THEN Outcome(st, f, "Error", "load_certificate", << >>, {}, "none")
        ELSE IF failAt = "use_certificate"
        THEN Outcome(st, f, "Error", failAt, << >>, {"use_certificate"}, "none")
        ELSE IF failAt = "load_privatekey" \/ ~pem_has(data, "RSA PRIVATE KEY")
        THEN Outcome(st1, f, "Error", "load_privatekey", << >>, {"use_certificate"}, "none")
        ELSE IF failAt = "use_privatekey"
        THEN Outcome(st1, f, "Error", failAt, << >>,
                     {"use_privatekey", "use_certificate"}, "none")
        ELSE IF Len(leaf.cert_chain_pems) # 1
        THEN Outcome(st2, f, "AssertionError", "assert", << >>,
                     {"use_privatekey", "use_certificate"}, "none")
        ELSE Returned(st2, f, {"use_privatekey", "use_certificate"}, "none")

\* key = load_privatekey(...); ctx.use_privatekey(key);
\* cert = load_certificate(...); ctx.use_certificate(cert);
\* assert len(self.cert_chain_pems) == 1
configure_cert_pyopenssl(leaf, st, f, failAt) ==
    LET data == bytes(leaf.private_key_pem)
        st1 == use_privatekey(st, load_privatekey(data))
        cdata == bytes(leaf.cert_chain_pems[1])
        st2 == use_certificate(st1, load_certificate(cdata))
    IN  IF failAt = "load_privatekey" \/ ~pem_has(data, "RSA PRIVATE KEY")
        THEN Outcome(st, f, "Error", "load_privatekey", << >>, {}, "none")
        ELSE IF failAt = "use_privatekey"
        THEN Outcome(st, f, "Error", failAt, << >>, {"use_privatekey"}, "none")
        ELSE IF failAt = "load_certificate" \/ ~pem_has(cdata, "CERTIFICATE")
        THEN Outcome(st1, f, "Error", "load_certificate", << >>, {"use_privatekey"}, "none")
        ELSE IF failAt = "use_certificate"
        THEN Outcome(st1, f, "Error", failAt, << >>,
                     {"use_privatekey", "use_certificate"}, "none")
        ELSE IF Len(leaf.cert_chain_pems) # 1
        THEN Outcome(st2, f, "AssertionError", "assert", << >>,
                     {"use_privatekey", "use_certificate"}, "none")
        ELSE Returned(st2, f, {"use_privatekey", "use_certificate"}, "none")

\* faulty variant: the module marker is inspected before the isinstance test
configure_cert_smell_first(leaf, obj, st, f, tmp, failAt) ==
    IF smells_like_pyopenssl(obj) THEN configure_cert_pyopenssl(leaf, st, f, failAt)
    ELSE IF obj.is_SSLContext THEN configure_cert_native(leaf, st, f, tmp, failAt)
    ELSE unrecognized_context(obj, st, f)

configure_cert(leaf, obj, st, f, tmp, failAt) ==
    IF obj.is_SSLContext THEN configure_cert_native(leaf, st, f, tmp, failAt)
    ELSE IF smells_like_pyopenssl(obj) THEN configure_cert_pyopenssl(leaf, st, f, failAt)
    ELSE unrecognized_context(obj, st, f)

\* the points at which a call into an external library may raise, for each
\* operation and each kind of object ("none": no call raises)
FailPointsTrust(obj) ==
    IF obj.is_SSLContext THEN {"none", "load_verify_locations"}
    ELSE IF smells_like_pyopenssl(obj)
    THEN {"none", "load_certificate", "get_cert_store", "add_cert"}
    ELSE {"none"}

FailPointsTempfile == {"none", "NamedTemporaryFile", "write"}

FailPointsCert(obj) ==
    IF obj.is_SSLContext THEN FailPointsTempfile \cup {"load_cert_chain"}
    ELSE IF smells_like_pyopenssl(obj)
    THEN {"none", "load_privatekey", "use_privatekey", "load_certificate",
          "use_certificate"}
    ELSE {"none"}

(***************************************************************************)
(* The calls a program makes.  Every call sets result: the operation, the  *)
(* arguments the properties read, the exception raised ("none": returned), *)
(* its message, the value returned, the context operations invoked, the    *)
(* temporary file used, and (history) the state the call found.            *)
(***************************************************************************)
Paths == {"out.pem", "tmp1.pem", "tmp2.pem"}
OutPaths == {"out.pem"}
TmpPaths == {"tmp1.pem", "tmp2.pem"}

Result(op, args, exc, at, msg, value, calls, tmp, before) ==
    [op |-> op, args |-> args, exc |-> exc, at |-> at, msg |-> msg, value |-> value,
     calls |-> calls, tmp |-> tmp, before |-> before]

NoScope == [active |-> FALSE, blob |-> Blob(<< >>), path |-> "none", seen |-> NoFile]

\* ca = CA()
NewCA ==
    /\ Len(cas) < MaxCAs
    /\ cas' = Append(cas, CA_init(nrand + 1))
    /\ nrand' = nrand + 1
    /\ result' = Result("CA", << >>, "none", "none", << >>, Len(cas) + 1, {}, "none", << >>)
    /\ UNCHANGED <<leaves, issued, live, ctxs, fs, scope, blob, made_from>>

\* cas[c].issue_server_cert(*hostnames)
IssueServerCert(c, hostnames) ==
    /\ c \in DOMAIN cas
    /\ LET r == issue_server_cert(cas[c], hostnames, nrand + 1)
       IN  /\ r.exc = "none" => Len(leaves) < MaxLeaves
           /\ leaves' = IF r.exc = "none" THEN Append(leaves, r.leaf) ELSE leaves
           /\ issued' = IF r.exc = "none"
                        THEN Append(issued, [ca |-> c, hostnames |-> hostnames])
                        ELSE issued
           /\ nrand' = nrand + r.draws
           /\ result' = Result("issue_server_cert", <<c, hostnames>>, r.exc,
                               IF r.exc = "none" THEN "none" ELSE "check", r.msg,
                               IF r.exc = "none" THEN Len(leaves) + 1 ELSE 0,
                               {}, "none", << >>)
    /\ UNCHANGED <<cas, live, ctxs, fs, scope, blob, made_from>>

\* cas[c].configure_trust(x)
ConfigureTrust(c, x, failAt) ==
    /\ c \in DOMAIN cas
    /\ x \in live
    /\ failAt \in FailPointsTrust(ContextObject(x))
    /\ LET r == configure_trust(cas[c], ContextObject(x), ctxs[x], fs, failAt)
       IN  /\ ctxs' = [ctxs EXCEPT ![x] = r.ctx]
           /\ fs' = r.fs
           /\ result' = Result("configure_trust", <<x>>, r.exc, r.at, r.msg, "None",
                               r.calls, r.tmp,
                               IF r.exc = "none" THEN << >> ELSE ctxs[x])
    /\ UNCHANGED <<cas, leaves, issued, nrand, live, scope, blob, made_from>>

\* leaves[l].configure_cert(x); tmp is the name NamedTemporaryFile would pick
ConfigureCert(l, x, tmp, failAt) ==
    /\ l \in DOMAIN leaves
    /\ x \in live
    /\ failAt \in FailPointsCert(ContextObject(x))
    /\ ~fs[tmp].exists
    /\ LET r == configure_cert(leaves[l], ContextObject(x), ctxs[x], fs, tmp, failAt)
       IN  /\ ctxs' = [ctxs EXCEPT ![x] = r.ctx]
           /\ fs' = r.fs
           /\ result' = Result("configure_cert", <<x>>, r.exc, r.at, r.msg, "None",
                               r.calls, r.tmp,
                               IF r.exc = "none" THEN << >> ELSE ctxs[x])
    /\ UNCHANGED <<cas, leaves, issued, nrand, live, scope, blob, made_from>>

\* leaves[l].cert_chain_pems.append(ca.cert_pem), ca the CA that issued the
\* leaf: the list is a public attribute, which the caller can extend towards
\* the root
ExtendChain(l) ==
    /\ l \in DOMAIN leaves
    /\ Len(leaves[l].cert_chain_pems) < MaxChain
    /\ leaves' = [leaves EXCEPT ![l].cert_chain_pems = Append(@, cas[issued[l].ca].cert_pem)]
    /\ result' = Result("cert_chain_pems.append", << >>, "none", "none", << >>, "None",
                        {}, "none", << >>)
    /\ UNCHANGED <<cas, issued, nrand, live, ctxs, fs, scope, blob, made_from>>

\* blob.bytes()
BlobBytes ==
    /\ result' = Result("bytes", << >>, "none", "none", << >>, bytes(blob), {}, "none", << >>)
    /\ UNCHANGED <<cas, leaves, issued, nrand, live, ctxs, fs, scope, blob, made_from>>

\* blob.write_to_path(path, append)
WriteToPath(path, append) ==
    /\ path \in OutPaths
    /\ Len(write_to_path(fs, blob, path, append)[path].content) <= MaxFileLen
    /\ fs' = write_to_path(fs, blob, path, append)
    /\ result' = Result("write_to_path", <<path, append>>, "none", "none", << >>, "None",
                        {}, "none", fs[path])
    /\ UNCHANGED <<cas, leaves, issued, nrand, live, ctxs, scope, blob, made_from>>

\* with blob.tempfile() as path: entering the scope
TempfileEnter(tmp, failAt) ==
    /\ ~scope.active
    /\ ~fs[tmp].exists
    /\ failAt \in FailPointsTempfile
    /\ IF failAt = "NamedTemporaryFile"
       THEN /\ result' = Result("tempfile", << >>, "OSError", failAt, << >>, "None",
                                {}, "none", << >>)
            /\ UNCHANGED <<fs, scope>>
       ELSE IF failAt = "write"
       THEN /\ fs' = tempfile_finally(NamedTemporaryFile(fs, tmp), tmp, TRUE)
            /\ result' = Result("tempfile", << >>, "OSError", failAt, << >>, "None",
                                {}, tmp, << >>)
            /\ UNCHANGED scope
       ELSE /\ fs' = tempfile_write(NamedTemporaryFile(fs, tmp), blob, tmp)
            /\ scope' = [active |-> TRUE, blob |-> blob, path |-> tmp, seen |-> NoFile]
            /\ result' = Result("tempfile.enter", << >>, "none", "none", << >>, tmp,
                                {}, "none", << >>)
    /\ UNCHANGED <<cas, leaves, issued, nrand, live, ctxs, blob, made_from>>

\* the body of the scope reads the file at the path it was given
BodyRead ==
    /\ scope.active
    /\ scope.seen = NoFile
    /\ scope' = [scope EXCEPT !.seen = fs[scope.path]]
    /\ UNCHANGED <<cas, leaves, issued, nrand, live, ctxs, fs, blob, made_from, result>>

\* the body returns, or raises: the scope is left
TempfileExit(raised) ==
    /\ scope.active
    /\ fs' = tempfile_finally(fs, scope.path, raised)
    /\ scope' = NoScope
    /\ result' = Result("tempfile", << >>, IF raised THEN "BodyError" ELSE "none",
                        IF raised THEN "body" ELSE "none",
                        << >>, "None", {}, scope.path, scope.seen)
    /\ UNCHANGED <<cas, leaves, issued, nrand, live, ctxs, blob, made_from>>

Start == Result("start", << >>, "none", "none", << >>, "None", {}, "none", << >>)

(***************************************************************************)
(* Spec: the certificate hierarchy.  CAs are constructed and leaf          *)
(* certificates issued, in any order.                                      *)
(***************************************************************************)
Init ==
    /\ cas = << >>
    /\ leaves = << >>
    /\ issued = << >>
    /\ nrand = 0
    /\ live = {}
    /\ ctxs = [x \in Contexts |-> EmptyContext]
    /\ fs = [p \in Paths |-> NoFile]
    /\ scope = NoScope
    /\ blob = Blob(<< >>)
    /\ made_from = << >>
    /\ result = Start

Next ==
    \/ NewCA
    \/ \E c \in DOMAIN cas, h \in HostnameTuples : IssueServerCert(c, h)

Spec == Init /\ [][Next]_vars

(***************************************************************************)
(* SpecCtx: configuration of contexts.  The program has constructed two    *)
(* CAs and issued a leaf certificate from the first; it holds a native     *)
(* context, a pyOpenSSL context and two objects of other types; it then    *)
(* configures them in any order, and may extend the leaf's chain list.     *)
(***************************************************************************)
InitCtx ==
    /\ cas = << CA_init(1), CA_init(2) >>
    /\ leaves = << build_leaf(cas[1], <<"example.org">>, 3) >>
    /\ issued = << [ca |-> 1, hostnames |-> <<"example.org">>] >>
    /\ nrand = 3
    /\ live \in { {n, "P", "U", "V"} : n \in NativeContexts }
    /\ ctxs = [x \in Contexts |-> EmptyContext]
    /\ fs = [p \in Paths |-> NoFile]
    /\ scope = NoScope
    /\ blob = Blob(<< >>)
    /\ made_from = << >>
    /\ result = Start

NextCtx ==
    \/ \E c \in DOMAIN cas, x \in Contexts :
          \E fa \in FailPointsTrust(ContextObject(x)) : ConfigureTrust(c, x, fa)
    \/ \E l \in DOMAIN leaves, x \in Contexts, t \in TmpPaths :
          \E fa \in FailPointsCert(ContextObject(x)) : ConfigureCert(l, x, t, fa)
    \/ \E l \in DOMAIN leaves : ExtendChain(l)

SpecCtx == InitCtx /\ [][NextCtx]_vars

(***************************************************************************)
(* SpecBlob: the operations of a Blob on arbitrary bytes, and the use of   *)
(* Blob.tempfile by configure_cert on a native context.  Bytes are opaque  *)
(* to a Blob: the byte strings are the sequences of at most MaxLen chunks. *)
(***************************************************************************)
Chunks == Range(build_leaf(CA_init(1), <<"example.org">>, 2).private_key_and_cert_chain_pem.data)

RECURSIVE SeqsUpTo(_, _)
SeqsUpTo(S, n) ==
    IF n = 0 THEN { << >> }
    ELSE LET shorter == SeqsUpTo(S, n - 1)
         IN  shorter \cup { Append(s, e) : s \in shorter, e \in S }

InitBlob ==
    /\ cas = << CA_init(1) >>
    /\ leaves = << build_leaf(cas[1], <<"example.org">>, 2) >>
    /\ issued = << [ca |-> 1, hostnames |-> <<"example.org">>] >>
    /\ nrand = 2
    /\ live = {"N"}
    /\ ctxs = [x \in Contexts |-> EmptyContext]
    /\ \E B \in SeqsUpTo(Chunks, MaxLen) :
          /\ blob = Blob(B)
          /\ made_from = B
    /\ \E old \in {NoFile} \cup { File(s) : s \in SeqsUpTo(Chunks, MaxLen) } :
          fs = [p \in Paths |-> IF p \in OutPaths THEN old ELSE NoFile]
    /\ scope = NoScope
    /\ result = Start

NextBlob ==
    \/ BlobBytes
    \/ \E p \in OutPaths, a \in BOOLEAN : WriteToPath(p, a)
    \/ \E t \in TmpPaths, fa \in FailPointsTempfile : TempfileEnter(t, fa)
    \/ BodyRead
    \/ \E raised \in BOOLEAN : TempfileExit(raised)
    \/ \E l \in DOMAIN leaves, x \in NativeContexts, t \in TmpPaths :
          \E fa \in FailPointsCert(ContextObject(x)) : ConfigureCert(l, x, t, fa)

SpecBlob == InitBlob /\ [][NextBlob]_vars
(***************************************************************************)
(* Properties.  A certificate is read back from its PEM bytes, as a user   *)
(* of the library would.                                                   *)
(***************************************************************************)
LeafCertificate(leaf) == load_certificate(bytes(leaf.cert_chain_pems[1]))
LeafKey(leaf) == load_privatekey(bytes(leaf.private_key_pem))
RootCertificate(ca) == load_certificate(bytes(ca.cert_pem))
ExtensionValue(cert, oid) == get_extension_for_class(cert, oid).value
SanDns(cert) ==
    LET names == ExtensionValue(cert, "subjectAltName").general_names
    IN  [i \in DOMAIN names |-> names[i].dns]

\* C2: every leaf issued for a non-empty hostname sequence H carries H as its
\* Subject-Alternative-Name DNS list, element for element and in order
\* (duplicates kept); its chain has exactly one entry, the leaf certificate;
\* its combined blob is the private-key bytes followed by that entry's bytes;
\* and the call returns that leaf.
C2_IssuedLeafShape ==
    /\ Len(issued) = Len(leaves)
    /\ \A i \in DOMAIN leaves :
          /\ issued[i].hostnames # << >>
          /\ has_extension(LeafCertificate(leaves[i]), "subjectAltName")
          /\ SanDns(LeafCertificate(leaves[i])) = issued[i].hostnames
          /\ Len(leaves[i].cert_chain_pems) = 1
          /\ Len(PemBlocks(bytes(leaves[i].cert_chain_pems[1]), "CERTIFICATE")) = 1
          /\ bytes(leaves[i].private_key_and_cert_chain_pem)
                = bytes(leaves[i].private_key_pem) \o bytes(leaves[i].cert_chain_pems[1])
    /\ (result.op = "issue_server_cert" /\ result.exc = "none") =>
          /\ result.value = Len(leaves)
          /\ issued[result.value].hostnames = result.args[2]
          /\ issued[result.value].ca = result.args[1]

C2_Witness ==
    /\ Len(leaves) = 2
    /\ issued[1].hostnames = <<"b.test", "b.test">>
    /\ issued[2].hostnames = <<"b.test", "example.org">>
    /\ SanDns(LeafCertificate(leaves[2])) = <<"b.test", "example.org">>

\* C3: every root certificate is self-signed (subject = issuer) with the CA
\* flag set, and no step changes a CA once constructed; every leaf has the
\* CA flag cleared, the subject name of the CA that issued it as its issuer
\* name, that CA's Subject-Key-Identifier as its Authority-Key-Identifier,
\* and a key pair that is not that CA's.
C3_Hierarchy ==
    /\ \A c \in DOMAIN cas :
          LET root == RootCertificate(cas[c])
          IN  /\ root.subject = root.issuer
              /\ ExtensionValue(root, "basicConstraints").ca = TRUE
              /\ root.signature.by = cas[c].private_key.id
              /\ root.tbs.public_key = public_key(cas[c].private_key)
    /\ \A i \in DOMAIN leaves :
          LET cert == LeafCertificate(leaves[i])
              ca == cas[issued[i].ca]
              root == RootCertificate(ca)
          IN  /\ ExtensionValue(cert, "basicConstraints").ca = FALSE
              /\ cert.issuer = root.subject
              /\ ExtensionValue(cert, "authorityKeyIdentifier").key_identifier
                    = ExtensionValue(root, "subjectKeyIdentifier").digest
              /\ LeafKey(leaves[i]) # ca.private_key
              /\ cert.tbs.public_key # root.tbs.public_key
              /\ cert.tbs.public_key = public_key(LeafKey(leaves[i]))

C3_RootsNeverChange ==
    \A c \in DOMAIN cas : c \in DOMAIN cas' /\ cas'[c] = cas[c]

C4_Outcome ==
    /\ result.op = "issue_server_cert" =>
          /\ (result.args[2] = << >>) <=> (result.exc = "ValueError")
          /\ result.exc \in {"none", "ValueError"}
          /\ result.exc = "ValueError" => result.value = 0
    /\ (result.exc = "ValueError" /\ Len(leaves) < MaxLeaves) =>
          \A c \in DOMAIN cas : ENABLED IssueServerCert(c, <<"example.org">>)

C4_NothingChanges ==
    (result'.exc = "ValueError") => UNCHANGED <<cas, leaves, issued, nrand>>

C4_EmptyHostnamesRejected == []C4_Outcome /\ [][C4_NothingChanges]_vars

C4_Witness ==
    /\ result.op = "issue_server_cert"
    /\ result.exc = "ValueError"
    /\ Len(leaves) = 1
    /\ Len(cas) = 2

(***************************************************************************)
(* The TLS handshake (external): whether verifier context v accepts        *)
(* presenter context p for hostname.  The presenter holds a certificate    *)
(* and the private key of its public key; the certificate names hostname;  *)
(* and one of the verifier's roots is a CA certificate with the issuer's   *)
(* name and key identifier whose public key verifies the signature.        *)
(***************************************************************************)
verify_signature(cert, pk) == cert.signature.by = pk.pub

Handshake(v, p, hostname) ==
    /\ p.certificate # NoCert
    /\ p.private_key # NoKey
    /\ public_key(p.private_key) = p.certificate.tbs.public_key
    /\ has_extension(p.certificate, "subjectAltName")
    /\ hostname \in Range(SanDns(p.certificate))
    /\ \E root \in v.roots :
          /\ root.subject = p.certificate.issuer
          /\ ExtensionValue(root, "basicConstraints").ca
          /\ has_extension(p.certificate, "authorityKeyIdentifier") =>
                ExtensionValue(p.certificate, "authorityKeyIdentifier").key_identifier
                    = ExtensionValue(root, "subjectKeyIdentifier").digest
          /\ verify_signature(p.certificate, root.tbs.public_key)

ConfigOps == {"configure_trust", "configure_cert"}
Presents(st, leaf) ==
    /\ st.certificate = LeafCertificate(leaf)
    /\ st.private_key = LeafKey(leaf)

\* C5: a presenter context configured with a leaf is accepted by a verifier
\* context, for each hostname of the leaf, exactly when the root certificate
\* of the CA that issued the leaf is among the roots configured into the
\* verifier.
C5_EndToEndTrust ==
    \A v \in live, p \in live, l \in DOMAIN leaves :
        Presents(ctxs[p], leaves[l]) =>
            \A h \in Range(issued[l].hostnames) :
                Handshake(ctxs[v], ctxs[p], h)
                    <=> (RootCertificate(cas[issued[l].ca]) \in ctxs[v].roots)

C5_Witness ==
    \E v \in live, w \in live, p \in live :
        /\ ctxs[v].roots = {RootCertificate(cas[1])}
        /\ ctxs[w].roots = {RootCertificate(cas[2])}
        /\ issued[1].ca = 1
        /\ Presents(ctxs[p], leaves[1])
        /\ Handshake(ctxs[v], ctxs[p], "example.org")
        /\ ~Handshake(ctxs[w], ctxs[p], "example.org")

\* C6: for an object that is neither an ssl.SSLContext instance nor has a
\* module marker starting with "OpenSSL", configure_trust and configure_cert
\* raise TypeError with the message naming the object's class, invoke no
\* operation on the object, create no temporary file, and change neither
\* the object, the CAs nor the leaves.
C6_Outcome ==
    (result.op \in ConfigOps /\ result.args[1] \in {"U", "V"}) =>
        /\ result.exc = "TypeError"
        /\ result.args[1] = "U" =>
              result.msg = <<"unrecognized context type ", "'", "int", "'">>
        /\ result.args[1] = "V" =>
              result.msg = <<"unrecognized context type ", "'", "FakeContext", "'">>
        /\ result.calls = {}
        /\ result.tmp = "none"
        /\ \A p \in Paths : ~fs[p].exists
        /\ ctxs[result.args[1]] = EmptyContext

C6_NothingChanges ==
    (result'.exc = "TypeError") => UNCHANGED <<cas, leaves, issued, nrand, ctxs, fs>>

C6_UnrecognizedContext == []C6_Outcome /\ [][C6_NothingChanges]_vars

C6_Witness ==
    /\ result.op = "configure_cert"
    /\ result.args = <<"V">>
    /\ result.exc = "TypeError"
    /\ ~ContextObject("V").is_SSLContext
    /\ ~startswith(getattr_module(ContextObject("V")), OpenSSL)
    /\ \E x \in live : ctxs[x].roots # {}

\* C8 (as claimed): every failing configuration call leaves the context
\* passed in exactly as it was before the call.
C8_FailureLeavesContextUntouched ==
    (result.op \in ConfigOps /\ result.exc # "none") =>
        ctxs[result.args[1]] = result.before

\* C8 (amended): a failing configuration call leaves the context's trusted
\* roots as they were.  A failing configure_trust, and a failing
\* configure_cert on a native or an unrecognized context, or one under the
\* alternate shape that fails before use_privatekey has succeeded, leaves the
\* context exactly as it was.  Under the alternate shape, a failure while
\* loading or assigning the certificate leaves the leaf's private key
\* assigned and the certificate as it was, and the chain-length assertion
\* fails with both the private key and the certificate assigned.
C8_FailureEffects ==
    (result.op \in ConfigOps /\ result.exc # "none") =>
        LET x == result.args[1]
            st == ctxs[x]
            b == result.before
        IN  /\ st.roots = b.roots
            /\ (\/ result.op = "configure_trust"
                \/ ContextObject(x).is_SSLContext
                \/ result.exc = "TypeError"
                \/ result.at \in {"load_privatekey", "use_privatekey"}) => st = b
            /\ (result.op = "configure_cert"
                    /\ result.at \in {"load_certificate", "use_certificate"}) =>
                  /\ st.certificate = b.certificate
                  /\ \E l \in DOMAIN leaves : st.private_key = LeafKey(leaves[l])
            /\ result.at = "assert" =>
                  \E l \in DOMAIN leaves : Presents(st, leaves[l])

C8_Witness ==
    /\ result.op = "configure_cert"
    /\ result.args = <<"P">>
    /\ result.at = "use_certificate"
    /\ result.before.private_key = NoKey
    /\ ctxs["P"].private_key = LeafKey(leaves[1])
    /\ ctxs["P"].certificate = NoCert

\* C9 (as claimed): when no library call raises, configure_cert of a leaf
\* whose chain holds more than one entry fails with AssertionError on a
\* native and on an alternate context, and leaves the context unconfigured.
C9_LongChainRejected ==
    (/\ result.op = "configure_cert"
     /\ result.args[1] \in {"N", "M", "P"}
     /\ result.at \in {"none", "assert"}
     /\ \A l \in DOMAIN leaves : Len(leaves[l].cert_chain_pems) > 1) =>
        /\ result.exc = "AssertionError"
        /\ ctxs[result.args[1]] = result.before

\* C10: configure_trust and configure_cert return nothing and dispatch alike:
\* an ssl.SSLContext instance, whatever its module marker, is driven through
\* load_verify_locations / a temporary file and load_cert_chain; any other
\* object whose module marker starts with "OpenSSL" through get_cert_store
\* and add_cert / use_privatekey and use_certificate; no operation of the
\* other variant is invoked; and a step changes no context but the one passed.
C10_VariantOf ==
    result.op \in ConfigOps =>
        LET x == result.args[1]
            obj == ContextObject(x)
            ok == result.exc = "none"
            trust == result.op = "configure_trust"
        IN  /\ result.value = "None"
            /\ x \in NativeContexts <=> obj.is_SSLContext
            /\ obj.is_SSLContext =>
                  /\ result.calls \subseteq {"load_verify_locations", "load_cert_chain"}
                  /\ trust => result.calls = {"load_verify_locations"}
                  /\ (~trust /\ result.at \notin {"NamedTemporaryFile", "write"}) =>
                        result.calls = {"load_cert_chain"} /\ result.tmp \in TmpPaths
                  /\ (ok /\ trust) =>
                        \E c \in DOMAIN cas : RootCertificate(cas[c]) \in ctxs[x].roots
                  /\ (ok /\ ~trust) =>
                        \E l \in DOMAIN leaves : Presents(ctxs[x], leaves[l])
            /\ (~obj.is_SSLContext /\ startswith(getattr_module(obj), OpenSSL)) =>
                  /\ x = "P"
                  /\ result.tmp = "none"
                  /\ trust => result.calls \subseteq {"get_cert_store", "add_cert"}
                  /\ ~trust => result.calls \subseteq {"use_privatekey", "use_certificate"}
                  /\ (ok /\ trust) =>
                        /\ result.calls = {"get_cert_store", "add_cert"}
                        /\ \E c \in DOMAIN cas :
                              RootCertificate(cas[c]) \in ctxs[x].roots
                  /\ (ok /\ ~trust) =>
                        /\ result.calls = {"use_privatekey", "use_certificate"}
                        /\ \E l \in DOMAIN leaves : Presents(ctxs[x], leaves[l])

C10_OnlyThePassedContext ==
    \A y \in Contexts :
        ctxs'[y] # ctxs[y] => (result'.op \in ConfigOps /\ result'.args = <<y>>)

C10_Dispatch == []C10_VariantOf /\ [][C10_OnlyThePassedContext]_vars

C10_Witness ==
    /\ result.op = "configure_cert"
    /\ result.args = <<"M">>
    /\ result.exc = "none"
    /\ ContextObject("M").is_SSLContext
    /\ startswith(getattr_module(ContextObject("M")), OpenSSL)
    /\ Presents(ctxs["M"], leaves[1])
    /\ ctxs["P"] = EmptyContext

\* C1: while a Blob.tempfile() scope is active, the file at the yielded path
\* exists and holds exactly the Blob's bytes, and that is what the body
\* reads (configure_cert on a native context loads the leaf's key and
\* certificate from it); once the scope has been left, by return or by
\* raise, and once configure_cert on a native context has returned or
\* raised, the temporary file is gone.
C1_ScopedTempfile ==
    /\ scope.active =>
          /\ scope.path \in TmpPaths
          /\ fs[scope.path] = File(bytes(scope.blob))
          /\ scope.blob = Blob(made_from)
          /\ scope.seen \in {NoFile, File(made_from)}
    /\ ~scope.active => \A p \in TmpPaths : ~fs[p].exists
    /\ (result.op \in {"tempfile", "configure_cert"} /\ result.tmp # "none") =>
          ~fs[result.tmp].exists
    /\ (result.op = "configure_cert" /\ result.at \notin {"NamedTemporaryFile"}) =>
          result.tmp \in TmpPaths
    /\ (result.op = "tempfile" /\ result.at \in {"none", "body"}) =>
          /\ result.tmp \in TmpPaths
          /\ result.before \in {NoFile, File(made_from)}
    /\ (result.op = "configure_cert" /\ result.exc = "none") =>
          \E l \in DOMAIN leaves : Presents(ctxs[result.args[1]], leaves[l])

C1_Witness ==
    /\ result.op = "tempfile"
    /\ result.exc = "BodyError"
    /\ made_from # << >>
    /\ result.before = File(made_from)
    /\ ~scope.active
    /\ ~fs[result.tmp].exists

\* C7: the Blob holds the bytes B it was constructed from whatever is done
\* with it, and bytes() returns B; write_to_path(p) leaves the file at p
\* holding exactly B whatever it held before, write_to_path(p, append=True)
\* leaves it holding what it held before followed by B.
C7_BlobRoundTrip ==
    /\ blob = Blob(made_from)
    /\ result.op = "bytes" => result.value = made_from
    /\ result.op = "write_to_path" =>
          LET path == result.args[1]
              append == result.args[2]
              old == result.before
          IN  /\ fs[path].exists
              /\ ~append => fs[path].content = made_from
              /\ (append /\ ~old.exists) => fs[path].content = made_from
              /\ (append /\ old.exists) => fs[path].content = old.content \o made_from

C7_Witness ==
    /\ result.op = "write_to_path"
    /\ result.args[2] = FALSE
    /\ result.before.exists
    /\ made_from # << >>
    /\ result.before.content # << >>
    /\ result.before.content # made_from
    /\ fs["out.pem"].content = made_from
====
